---- MODULE Spec2Model ----
(***************************************************************************)
(* A model of the CHIP-8 interpreter of chip8rs: the Chip8 aggregate of    *)
(* src/src/chip8.rs (registers, call stack, Ram, Display) driven by the    *)
(* run loop of src/src/main.rs.  One action per instruction handler; each  *)
(* action is a whole call of Chip8::run_instruction (fetch, pc += 2,       *)
(* dispatch, handler).  A Rust panic ends the run: halt = "panicked".      *)
(***************************************************************************)
EXTENDS Integers, Sequences, FiniteSets, TLC

VARIABLES
    vx,                  \* Chip8.vx: [u16; 16]
    i,                   \* Chip8.i: u16
    pc,                  \* Chip8.pc: u16
    sp,                  \* Chip8.sp: u8
    dt,                  \* Chip8.dt: u16
    stack,               \* Chip8.stack: [u16; 16]
    memory,              \* Chip8.ram.memory: [u8; 4096], its nonzero bytes
    pixels,              \* Chip8.display.pixels: [u32; 64 * 32], its COLOR_FILLED indices
    current_instruction, \* the word the last run_instruction fetched
    fetch_pc,            \* the address that word was fetched from
    halt,                \* "running", "exited" (loop condition false), "panicked"
    panic,               \* the panic that ended the run, NoPanic before
    overflow_checks,     \* build profile: TRUE = integer overflow panics, FALSE = it wraps
    steps,               \* number of run_instruction calls so far
    frames,              \* history: for each CALL that returned to the loop and has
                         \* not been matched by a RET, the address after the CALL
                         \* and SP before it
    rom_file,            \* history: the bytes Ram::new read from the ROM file
    call                 \* history: the last direct call of a Ram or Display
                         \* method (SpecRam, SpecDraw), NoCall in a machine run

vars == <<vx, i, pc, sp, dt, stack, memory, pixels, current_instruction,
          fetch_pc, halt, panic, overflow_checks, steps, frames, rom_file, call>>

----------------------------------------------------------------------------
(* Bounds of the model *)

\* longest ROM, in 16-bit words
RomLen == 3

\* most run_instruction calls in one run, beyond one per word of the ROM
MaxSteps == 16

\* the straight-line ROM of Spec: this many ADD V0, 0xFF, then LD F, V0
AddRunLen == 52

\* most direct calls of Ram or Display methods in one run of SpecRam or SpecDraw
MaxCalls == 3

----------------------------------------------------------------------------
(* Program constants *)

DISPLAY_WIDTH == 64
DISPLAY_HEIGHT == 32
COLOR_EMPTY == 0
COLOR_FILLED == 16777215
RAM_SIZE == 4096
NUM_REGISTERS == 16
STACK_SIZE == 16
ROM_START == 512
SPRITE_COLUMNS == 4
U8 == 256
U16 == 65536

\* the built-in hexadecimal font, sixteen 5-byte glyphs
FONT ==
    << 240, 144, 144, 144, 240,
        32,  96,  32,  32, 112,
       240,  16, 240, 128, 240,
       240,  16, 240,  16, 240,
       144, 144, 240,  16,  16,
       240, 128, 240,  16, 240,
       240, 128, 240, 144, 240,
       240,  16,  32,  64,  64,
       240, 144, 240, 144, 240,
       240, 144, 240,  16, 240,
       240, 144, 240, 144, 144,
       224, 144, 224, 144, 224,
       240, 128, 128, 128, 240,
       224, 144, 144, 144, 224,
       240, 128, 240, 128, 240,
       240, 128, 240, 128, 128 >>

----------------------------------------------------------------------------
(* Ram *)

\* The 4096-byte array is kept as the function from the addresses that hold
\* a nonzero byte to that byte; every other address of 0..RAM_SIZE-1 holds
\* 0x0, the value Ram::new fills the array with.

\* Ram::read_byte
ReadByte(mem, index) == IF index \in DOMAIN mem THEN mem[index] ELSE 0

\* a write_data that stores each byte one address too high
WriteDataShifted(mem, index, data) ==
    LET written == {a \in (index + 1)..(index + Len(data)) : a < RAM_SIZE}
        byte(a) == IF a \in written THEN data[a - index] ELSE mem[a]
    IN  [a \in {c \in (DOMAIN mem) \cup written : byte(c) # 0} |-> byte(a)]

\* Ram::write_data: the bytes are stored one by one; a byte whose index is
\* past the end of memory panics, after the earlier bytes were stored.
WriteData(mem, index, data) ==
    LET written == {a \in index..(index + Len(data) - 1) : a < RAM_SIZE}
        byte(a) == IF a \in written THEN data[a - index + 1] ELSE mem[a]
    IN  [a \in {c \in (DOMAIN mem) \cup written : byte(c) # 0} |-> byte(a)]

\* a bounds check on the first byte only
WriteDataOkFirstByte(index, data) == index < RAM_SIZE

WriteDataOk(index, data) == index + Len(data) <= RAM_SIZE

\* Ram::read_bytes: the slice memory[index..index + size]
ReadBytesOk(index, size) == index + size <= RAM_SIZE

ReadBytes(mem, index, size) == [k \in 1..size |-> ReadByte(mem, index + k - 1)]

\* Ram::read_word: big-endian combination of two bytes
ReadWord(mem, index) ==
    LET bytes == ReadBytes(mem, index, 2)
    IN  bytes[1] * 256 + bytes[2]

\* the bytes of a ROM file holding the 16-bit words rom, high byte first
RomBytes(rom) ==
    [k \in 1..(2 * Len(rom)) |->
        IF k % 2 = 1 THEN rom[(k + 1) \div 2] \div 256 ELSE rom[k \div 2] % 256]

\* a Ram::new that copies the ROM to 0x201
RamNewRomShifted(rom_data) == WriteData(WriteData(<<>>, 0, FONT), ROM_START + 1, rom_data)

\* Ram::new: zeroed memory, then the font at 0, then the ROM at 0x200
RamNew(rom_data) == WriteData(WriteData(<<>>, 0, FONT), ROM_START, rom_data)

----------------------------------------------------------------------------
(* Display *)

\* The 64 * 32 pixel array is kept as the set of the indices whose pixel is
\* COLOR_FILLED; every other pixel is COLOR_EMPTY (no other colour is stored).
PixelAt(px, index) == IF index \in px THEN COLOR_FILLED ELSE COLOR_EMPTY

\* Display::get_wrapped_coordinates
GetWrappedCoordinates(x, y) == <<x % DISPLAY_WIDTH, y % DISPLAY_HEIGHT>>

\* Display::coordinate_to_index
CoordinateToIndex(x, y) == x + (y * DISPLAY_WIDTH)

\* a clear that leaves the first pixel filled
ClearButFirst == {0}

\* Display::clear
Clear == {}

\* Storing one pixel: self.pixels[pixel_index] = value
SetPixel(px, index, value) ==
    IF value = COLOR_FILLED THEN px \cup {index} ELSE px \ {index}

\* Display::draw_sprite: rows in order, columns 0..SPRITE_COLUMNS-1 in order;
\* k counts the (row, column) pairs already drawn.  The four branches are
\* the if-chain of the inner loop body (its final else cannot be reached:
\* a sprite bit is 0 or 1 and a pixel is COLOR_EMPTY or COLOR_FILLED).
RECURSIVE DrawFrom(_, _, _, _, _, _)
DrawFrom(px, pixels_erased, x, y, sprite_data, k) ==
    IF k >= Len(sprite_data) * SPRITE_COLUMNS
    THEN [pixels |-> px, pixels_erased |-> pixels_erased]
    ELSE LET row == k \div SPRITE_COLUMNS
             j == k % SPRITE_COLUMNS
             line == sprite_data[row + 1]
             wrapped == GetWrappedCoordinates(x + j, y + row)
             pixel_index == CoordinateToIndex(wrapped[1], wrapped[2])
             selector == 2 ^ (7 - j)
             sprite_pixel_value == (line \div selector) % 2
             display_pixel_value == PixelAt(px, pixel_index)
         IN  IF sprite_pixel_value = 0 /\ display_pixel_value = COLOR_EMPTY
             THEN DrawFrom(SetPixel(px, pixel_index, COLOR_EMPTY),
                           pixels_erased, x, y, sprite_data, k + 1)
             ELSE IF sprite_pixel_value = 0 /\ display_pixel_value = COLOR_FILLED
             THEN DrawFrom(SetPixel(px, pixel_index, COLOR_FILLED),
                           pixels_erased, x, y, sprite_data, k + 1)
             ELSE IF sprite_pixel_value = 1 /\ display_pixel_value = COLOR_EMPTY
             THEN DrawFrom(SetPixel(px, pixel_index, COLOR_FILLED),
                           pixels_erased, x, y, sprite_data, k + 1)
             ELSE DrawFrom(SetPixel(px, pixel_index, COLOR_EMPTY),
                           TRUE, x, y, sprite_data, k + 1)

DrawSprite(px, x, y, sprite_data) == DrawFrom(px, FALSE, x, y, sprite_data, 0)

----------------------------------------------------------------------------
(* Decoding: the if-chain of Chip8::run_instruction *)

Nibble3(w) == w \div 4096            \* w >> 12
MaskF0FF(w) == (w \div 4096) * 4096 + (w % 256)   \* w & 0xF0FF
OperandXFromY(w) == (w \div 16) % 16  \* x taken from the y nibble
OperandX(w) == (w \div 256) % 16     \* (w & 0x0F00) >> 8
OperandY(w) == (w \div 16) % 16      \* (w & 0x00F0) >> 4
OperandN(w) == w % 16                \* w & 0x000F
OperandKK(w) == w % 256              \* w & 0x00FF
OperandNNNWide(w) == w % 8192        \* w & 0x1FFF, a mask one bit too wide
OperandNNN(w) == w % 4096            \* w & 0x0FFF

\* Handler with CLS matched under the mask 0xF0FF, as the Fx__ opcodes are
HandlerLooseCls(w) ==
    IF MaskF0FF(w) = 224 THEN "cls"
    ELSE IF w = 238 THEN "ret"
    ELSE IF Nibble3(w) = 1 THEN "jp_addr"
    ELSE IF Nibble3(w) = 2 THEN "call_addr"
    ELSE IF Nibble3(w) = 6 THEN "ld_vx_byte"
    ELSE IF Nibble3(w) = 7 THEN "add_vx_byte"
    ELSE IF Nibble3(w) = 10 THEN "ld_i_addr"
    ELSE IF Nibble3(w) = 13 THEN "drw_vx_vy_nibble"
    ELSE IF MaskF0FF(w) = 61447 THEN "ld_vx_dt"
    ELSE IF MaskF0FF(w) = 61461 THEN "ld_dt_vx"
    ELSE IF MaskF0FF(w) = 61481 THEN "ld_f_vx"
    ELSE IF MaskF0FF(w) = 61491 THEN "ld_b_vx"
    ELSE IF MaskF0FF(w) = 61541 THEN "ld_vx_i"
    ELSE "invalid"

Handler(w) ==
    IF w = 224 THEN "cls"                          \* 0x00E0
    ELSE IF w = 238 THEN "ret"                     \* 0x00EE
    ELSE IF Nibble3(w) = 1 THEN "jp_addr"
    ELSE IF Nibble3(w) = 2 THEN "call_addr"
    ELSE IF Nibble3(w) = 6 THEN "ld_vx_byte"
    ELSE IF Nibble3(w) = 7 THEN "add_vx_byte"
    ELSE IF Nibble3(w) = 10 THEN "ld_i_addr"
    ELSE IF Nibble3(w) = 13 THEN "drw_vx_vy_nibble"
    ELSE IF MaskF0FF(w) = 61447 THEN "ld_vx_dt"    \* 0xF007
    ELSE IF MaskF0FF(w) = 61461 THEN "ld_dt_vx"    \* 0xF015
    ELSE IF MaskF0FF(w) = 61481 THEN "ld_f_vx"     \* 0xF029
    ELSE IF MaskF0FF(w) = 61491 THEN "ld_b_vx"     \* 0xF033
    ELSE IF MaskF0FF(w) = 61541 THEN "ld_vx_i"     \* 0xF065
    ELSE "invalid"

----------------------------------------------------------------------------
(* The machine *)

NoPanic == [msg |-> "", args |-> {}]

NoCall == [op |-> "none", n |-> 0]

\* the ROM words the runs of Spec are built from
RomWords ==
    { 224,      \* 00E0 CLS
      238,      \* 00EE RET
      4608,     \* 1200 JP 0x200
      8191,     \* 1FFF JP 0xFFF
      8706,     \* 2202 CALL 0x202
      8708,     \* 2204 CALL 0x204
      24594,    \* 6012 LD V0, 0x12
      28927,    \* 70FF ADD V0, 0xFF
      45054,    \* AFFE LD I, 0xFFE
      53541,    \* D125 DRW V1, V2, 5
      61447,    \* F007 LD V0, DT
      61461,    \* F015 LD DT, V0
      61481,    \* F029 LD F, V0
      61491,    \* F033 LD B, V0
      62053 }   \* F265 LD V2, [I]

\* AddRunLen times 70FF (ADD V0, 0xFF), then F029 (LD F, V0)
AddRunRom == [k \in 1..(AddRunLen + 1) |-> IF k <= AddRunLen THEN 28927 ELSE 61481]

\* n times 70FF, then F029, for every n up to AddRunLen
AddRunRoms ==
    { [k \in 1..(n + 1) |-> IF k <= n THEN 28927 ELSE 61481] : n \in 1..AddRunLen }

\* 60kk (LD V0, kk), A300 (LD I, 0x300), F033 (LD B, V0), for every byte kk
BcdRoms == { <<24576 + kk, 41728, 61491>> : kk \in 0..(U8 - 1) }

\* the ROMs of Spec: every program of at most RomLen of these words, the
\* straight-line runs of additions, and the BCD programs
Roms ==
    UNION { [1..n -> RomWords] : n \in 1..RomLen }
        \cup {AddRunRom} \cup AddRunRoms \cup BcdRoms

\* the ROMs of SpecDecode: every 16-bit word, as a one-instruction program
AllWords == 0..(U16 - 1)
OneWordRoms == { <<w>> : w \in AllWords }

\* Chip8::new, for a ROM file holding the words rom, in a build whose
\* integer overflow checks are on or off
New(rom, checks) ==
    /\ vx = [r \in 0..(NUM_REGISTERS - 1) |-> 0]
    /\ i = 0
    /\ pc = ROM_START
    /\ sp = 0
    /\ dt = 0
    /\ stack = [s \in 0..(STACK_SIZE - 1) |-> 0]
    /\ memory = RamNew(RomBytes(rom))
    /\ rom_file = RomBytes(rom)
    /\ call = NoCall
    /\ pixels = {}
    /\ current_instruction = 0
    /\ fetch_pc = 0
    /\ halt = "running"
    /\ panic = NoPanic
    /\ overflow_checks = checks
    /\ steps = 0
    /\ frames = <<>>

Init == \E rom \in Roms, checks \in BOOLEAN : New(rom, checks)

InitDecode == \E rom \in OneWordRoms, checks \in BOOLEAN : New(rom, checks)

\* a loop that goes on calling run_instruction after its condition failed
RunningUnchecked ==
    halt \in {"running", "exited"} /\ steps < MaxSteps + Len(rom_file) \div 2

\* the loop of main is about to call run_instruction (a run is cut off
\* after one call for each word of the ROM and MaxSteps more)
Running == halt = "running" /\ steps < MaxSteps + Len(rom_file) \div 2

\* run_instruction fetched a word that the if-chain gives to handler h
Fetched(h) ==
    /\ Running
    /\ ReadBytesOk(pc, 2)
    /\ Handler(ReadWord(memory, pc)) = h
    /\ current_instruction' = ReadWord(memory, pc)
    /\ fetch_pc' = pc
    /\ steps' = steps + 1
    /\ UNCHANGED <<overflow_checks, rom_file, call>>

\* the handler returned: display.update() and back to the loop
Returns == UNCHANGED <<halt, panic, frames>>

\* the same for CALL and RET, which open and close a frame
ReturnsWith(open_frames) == UNCHANGED <<halt, panic>> /\ frames' = open_frames

Popped(open_frames) ==
    IF open_frames = <<>> THEN <<>> ELSE SubSeq(open_frames, 1, Len(open_frames) - 1)

\* a panic unwinds out of main
Panics(msg, args) ==
    /\ halt' = "panicked"
    /\ panic' = [msg |-> msg, args |-> args]
    /\ UNCHANGED frames

\* the fetch itself is out of range: read_bytes panics before pc moves
FetchFault ==
    /\ Running
    /\ ~ReadBytesOk(pc, 2)
    /\ Panics("range end index out of range for slice", {<<"end", pc + 2>>})
    /\ steps' = steps + 1
    /\ UNCHANGED <<vx, i, pc, sp, dt, stack, memory, pixels,
                   current_instruction, fetch_pc, overflow_checks, rom_file, call>>

\* no branch of the if-chain matches
InvalidInstruction ==
    /\ Fetched("invalid")
    /\ pc' = pc + 2
    /\ Panics("Invalid Instruction", {<<"instruction", ReadWord(memory, pc)>>})
    /\ UNCHANGED <<vx, i, sp, dt, stack, memory, pixels>>

\* 00E0 - CLS
Cls ==
    /\ Fetched("cls")
    /\ pc' = pc + 2
    /\ pixels' = Clear
    /\ Returns
    /\ UNCHANGED <<vx, i, sp, dt, stack, memory>>

\* 00EE - RET: pc = stack[sp]; sp -= 1
RetPc(stk, s) == stk[s]
RetSp(s) == s - 1

Ret ==
    /\ Fetched("ret")
    /\ IF sp >= STACK_SIZE
       THEN /\ Panics("index out of bounds", {<<"len", STACK_SIZE>>, <<"index", sp>>})
            /\ pc' = pc + 2
            /\ UNCHANGED sp
       ELSE /\ pc' = RetPc(stack, sp)
            /\ IF RetSp(sp) >= 0
               THEN sp' = RetSp(sp) /\ ReturnsWith(Popped(frames))
               ELSE IF overflow_checks
                    THEN /\ Panics("attempt to subtract with overflow", {})
                         /\ UNCHANGED sp
                    ELSE sp' = RetSp(sp) % U8 /\ ReturnsWith(Popped(frames))
    /\ UNCHANGED <<vx, i, dt, stack, memory, pixels>>

\* 1nnn - JP addr
JpAddr ==
    /\ Fetched("jp_addr")
    /\ pc' = OperandNNN(ReadWord(memory, pc))
    /\ Returns
    /\ UNCHANGED <<vx, i, sp, dt, stack, memory, pixels>>

\* 2nnn - CALL addr: sp += 1; stack[sp] = pc; pc = nnn
CallSp(s) == s + 1
\* CallStack storing below the incremented stack pointer
CallStackBelow(stk, s, ret_addr) == [stk EXCEPT ![s - 1] = ret_addr]

CallStack(stk, s, ret_addr) == [stk EXCEPT ![s] = ret_addr]

CallAddr ==
    /\ Fetched("call_addr")
    /\ IF CallSp(sp) >= U8 /\ overflow_checks
       THEN /\ Panics("attempt to add with overflow", {})
            /\ pc' = pc + 2
            /\ UNCHANGED <<sp, stack>>
       ELSE LET sp1 == CallSp(sp) % U8
            IN  /\ sp' = sp1
                /\ IF sp1 >= STACK_SIZE
                   THEN /\ Panics("index out of bounds",
                                  {<<"len", STACK_SIZE>>, <<"index", sp1>>})
                        /\ pc' = pc + 2
                        /\ UNCHANGED stack
                   ELSE /\ stack' = CallStack(stack, sp1, pc + 2)
                        /\ pc' = OperandNNN(ReadWord(memory, pc))
                        /\ ReturnsWith(Append(frames, [return_to |-> pc + 2, sp |-> sp]))
    /\ UNCHANGED <<vx, i, dt, memory, pixels>>

\* 6xkk - LD Vx, byte
LdVxByte ==
    /\ Fetched("ld_vx_byte")
    /\ pc' = pc + 2
    /\ LET command == ReadWord(memory, pc)
       IN  vx' = [vx EXCEPT ![OperandX(command)] = OperandKK(command)]
    /\ Returns
    /\ UNCHANGED <<i, sp, dt, stack, memory, pixels>>

\* 7xkk - ADD Vx, byte: self.vx[x] += kk on a u16 register
AddVxByteSum(old, kk) == old + kk

AddVxByte ==
    /\ Fetched("add_vx_byte")
    /\ pc' = pc + 2
    /\ LET command == ReadWord(memory, pc)
           x == OperandX(command)
           sum == AddVxByteSum(vx[x], OperandKK(command))
       IN  IF sum >= U16 /\ overflow_checks
           THEN Panics("attempt to add with overflow", {}) /\ UNCHANGED vx
           ELSE vx' = [vx EXCEPT ![x] = sum % U16] /\ Returns
    /\ UNCHANGED <<i, sp, dt, stack, memory, pixels>>

\* an ld_i_addr that also clears the display
LdIAddrClears ==
    /\ Fetched("ld_i_addr")
    /\ pc' = pc + 2
    /\ i' = OperandNNN(ReadWord(memory, pc))
    /\ pixels' = Clear
    /\ Returns
    /\ UNCHANGED <<vx, sp, dt, stack, memory>>

\* Annn - LD I, addr
LdIAddr ==
    /\ Fetched("ld_i_addr")
    /\ pc' = pc + 2
    /\ i' = OperandNNN(ReadWord(memory, pc))
    /\ Returns
    /\ UNCHANGED <<vx, sp, dt, stack, memory, pixels>>

\* Dxyn - DRW Vx, Vy, nibble: the coordinates handed to draw_sprite
SpriteX(command, regs) == OperandX(command)
SpriteY(command, regs) == OperandY(command)

\* the value VF gets from draw_sprite's result
CollisionFlag(pixels_erased) == IF pixels_erased THEN 1 ELSE 0

DrwVxVyNibble ==
    /\ Fetched("drw_vx_vy_nibble")
    /\ pc' = pc + 2
    /\ LET command == ReadWord(memory, pc)
           n == OperandN(command)
       IN  IF ~ReadBytesOk(i, n)
           THEN /\ Panics("range end index out of range for slice", {<<"end", i + n>>})
                /\ UNCHANGED <<vx, pixels>>
           ELSE LET drawn == DrawSprite(pixels, SpriteX(command, vx),
                                        SpriteY(command, vx), ReadBytes(memory, i, n))
                IN  /\ pixels' = drawn.pixels
                    /\ vx' = [vx EXCEPT ![15] = CollisionFlag(drawn.pixels_erased)]
                    /\ Returns
    /\ UNCHANGED <<i, sp, dt, stack, memory>>

\* Fx07 - LD Vx, DT
LdVxDt ==
    /\ Fetched("ld_vx_dt")
    /\ pc' = pc + 2
    /\ vx' = [vx EXCEPT ![OperandX(ReadWord(memory, pc))] = dt]
    /\ Returns
    /\ UNCHANGED <<i, sp, dt, stack, memory, pixels>>

\* Fx15 - LD DT, Vx
LdDtVx ==
    /\ Fetched("ld_dt_vx")
    /\ pc' = pc + 2
    /\ dt' = vx[OperandX(ReadWord(memory, pc))]
    /\ Returns
    /\ UNCHANGED <<vx, i, sp, stack, memory, pixels>>

\* Fx29 - LD F, Vx: self.i = digit * 5 on u16
LdFVx ==
    /\ Fetched("ld_f_vx")
    /\ pc' = pc + 2
    /\ LET digit == vx[OperandX(ReadWord(memory, pc))]
       IN  IF digit * 5 >= U16 /\ overflow_checks
           THEN Panics("attempt to multiply with overflow", {}) /\ UNCHANGED i
           ELSE i' = (digit * 5) % U16 /\ Returns
    /\ UNCHANGED <<vx, sp, dt, stack, memory, pixels>>

\* a BCD split whose tens digit forgets to take the hundreds off
BcdTensOfWhole(reg) ==
    LET reg_val == reg % U8
        hundreds == reg_val \div 100
        tens == reg_val \div 10
        ones == reg_val - (hundreds * 100 + (tens % 10) * 10)
    IN  <<hundreds, tens, ones>>

\* Fx33 - LD B, Vx: the three digits of (Vx as u8)
Bcd(reg) ==
    LET reg_val == reg % U8
        hundreds == reg_val \div 100
        tens == (reg_val - hundreds * 100) \div 10
        ones == reg_val - (hundreds * 100 + tens * 10)
    IN  <<hundreds, tens, ones>>

LdBVx ==
    /\ Fetched("ld_b_vx")
    /\ pc' = pc + 2
    /\ LET digits == Bcd(vx[OperandX(ReadWord(memory, pc))])
       IN  /\ memory' = WriteData(memory, i, digits)
           /\ IF WriteDataOk(i, digits)
              THEN Returns
              ELSE Panics("index out of bounds",
                          {<<"len", RAM_SIZE>>, <<"index", IF i >= RAM_SIZE THEN i ELSE RAM_SIZE>>})
    /\ UNCHANGED <<vx, i, sp, dt, stack, pixels>>

\* Fx65 - LD Vx, [I]: registers 0..x are loaded in order; a read past the
\* end of memory panics after the earlier registers were loaded.
LdVxI ==
    /\ Fetched("ld_vx_i")
    /\ pc' = pc + 2
    /\ LET x == OperandX(ReadWord(memory, pc))
       IN  /\ vx' = [r \in 0..(NUM_REGISTERS - 1) |->
                        IF r <= x /\ i + r < RAM_SIZE THEN ReadByte(memory, i + r) ELSE vx[r]]
           /\ IF i + x < RAM_SIZE
              THEN Returns
              ELSE Panics("index out of bounds",
                          {<<"len", RAM_SIZE>>, <<"index", IF i >= RAM_SIZE THEN i ELSE RAM_SIZE>>})
    /\ UNCHANGED <<i, sp, dt, stack, memory, pixels>>

\* main: the window was closed or Escape is down when the loop condition is read
LoopExit ==
    /\ halt = "running"
    /\ halt' = "exited"
    /\ UNCHANGED <<vx, i, pc, sp, dt, stack, memory, pixels, current_instruction,
                   fetch_pc, panic, overflow_checks, steps, frames, rom_file, call>>

Next ==
    \/ FetchFault
    \/ InvalidInstruction
    \/ Cls
    \/ Ret
    \/ JpAddr
    \/ CallAddr
    \/ LdVxByte
    \/ AddVxByte
    \/ LdIAddr
    \/ DrwVxVyNibble
    \/ LdVxDt
    \/ LdDtVx
    \/ LdFVx
    \/ LdBVx
    \/ LdVxI
    \/ LoopExit

Spec == Init /\ [][Next]_vars

\* the same machine, started on every one-instruction ROM
SpecDecode == InitDecode /\ [][Next]_vars

----------------------------------------------------------------------------
(* Direct calls of the Display and Ram methods *)

\* the machine as Chip8::new leaves it when the ROM file is empty
InitCalls == New(<<>>, TRUE)

CallsOpen == halt = "running" /\ call.n < MaxCalls

\* the arguments of the draw_sprite calls
DrawXs == {0, 60}
DrawYs == {0, 30}
DrawSprites == { <<255>>, <<15>>, <<240, 144>>, <<129, 66, 36, 24>> }

\* Display::draw_sprite(x, y, sprite_data) on the display as it is
DrawSpriteCall ==
    /\ CallsOpen
    /\ \E x \in DrawXs, y \in DrawYs, sprite_data \in DrawSprites :
          LET drawn == DrawSprite(pixels, x, y, sprite_data)
          IN  /\ pixels' = drawn.pixels
              /\ call' = [op |-> "draw_sprite", n |-> call.n + 1,
                          x |-> x, y |-> y, sprite_data |-> sprite_data,
                          before |-> pixels, pixels_erased |-> drawn.pixels_erased]
    /\ UNCHANGED <<vx, i, pc, sp, dt, stack, memory, current_instruction, fetch_pc,
                   halt, panic, overflow_checks, steps, frames, rom_file>>

NextDraw == DrawSpriteCall

\* a Display driven by draw_sprite calls alone
SpecDraw == InitCalls /\ [][NextDraw]_vars

\* the arguments of the write_data calls
WriteIndexes == {0, 79, 512, 4093, 4094, 4095}
WriteBytes == { <<7>>, <<0, 255>>, <<18, 52, 86>> }

\* Ram::write_data(index, data) on the memory as it is
WriteDataCall ==
    /\ CallsOpen
    /\ \E index \in WriteIndexes, data \in WriteBytes :
          /\ memory' = WriteData(memory, index, data)
          /\ call' = [op |-> "write_data", n |-> call.n + 1,
                      index |-> index, data |-> data, before |-> memory]
          /\ IF WriteDataOk(index, data)
             THEN Returns
             ELSE Panics("index out of bounds", {<<"len", RAM_SIZE>>, <<"index", RAM_SIZE>>})
    /\ UNCHANGED <<vx, i, pc, sp, dt, stack, pixels, current_instruction, fetch_pc,
                   overflow_checks, steps, rom_file>>

NextRam == WriteDataCall

\* a Ram driven by write_data calls alone
SpecRam == InitCalls /\ [][NextRam]_vars

----------------------------------------------------------------------------
(* Properties *)

\* this step is a run_instruction call that fetches a word for handler h
Executes(h) ==
    /\ Running
    /\ ReadBytesOk(pc, 2)
    /\ Handler(ReadWord(memory, pc)) = h
    /\ steps' = steps + 1

\* this step is a run_instruction call that fetches some word
ExecutesAny ==
    /\ Running
    /\ ReadBytesOk(pc, 2)
    /\ steps' = steps + 1

\* the opcode table of the specification (section 4.3)
InOpcodeTable(w) ==
    \/ w = 224                                  \* 00E0
    \/ w = 238                                  \* 00EE
    \/ Nibble3(w) \in {1, 2, 3, 4, 6, 7, 10, 13} \* 1nnn 2nnn 3xkk 4xkk 6xkk 7xkk Annn Dxyn
    \/ Nibble3(w) \in {5, 8, 9} /\ w % 16 = 0   \* 5xy0 8xy0 9xy0
    \/ Nibble3(w) = 14 /\ w % 256 = 161         \* ExA1
    \/ Nibble3(w) = 15 /\ w % 256 \in {7, 21, 30, 41, 51, 101}
                                                \* Fx07 Fx15 Fx1E Fx29 Fx33 Fx65

InvalidOpcodePanic == halt = "panicked" /\ panic.msg = "Invalid Instruction"

\* C1: a fetched word that matches a pattern of the opcode table never ends
\* in the fatal invalid-opcode outcome.
C1_TableOpcodesRecognised ==
    InvalidOpcodePanic => ~InOpcodeTable(current_instruction)

\* C2: every fetched word that matches no pattern of the opcode table ends
\* the run in the invalid-opcode panic, which names that word, and changes
\* no register, I, SP, DT, the stack, memory or the framebuffer: it is
\* neither executed as another instruction nor skipped.
C2_UnlistedWordsAreFatal ==
    [][(ExecutesAny /\ ~InOpcodeTable(ReadWord(memory, pc)))
        => /\ halt' = "panicked"
           /\ panic' = [msg |-> "Invalid Instruction",
                        args |-> {<<"instruction", ReadWord(memory, pc)>>}]
           /\ UNCHANGED <<vx, i, sp, dt, stack, memory, pixels>>]_vars

\* C2 witness: the run ended in the invalid-opcode panic on 8011 (8xy1)
C2_Witness ==
    /\ InvalidOpcodePanic
    /\ current_instruction = 32785
    /\ fetch_pc = ROM_START
    /\ ~InOpcodeTable(current_instruction)

\* C3: the invalid-opcode error carries the raw word and the address the
\* word was fetched from.
C3_ErrorCarriesPcAndWord ==
    InvalidOpcodePanic
        => /\ <<"instruction", current_instruction>> \in panic.args
           /\ <<"pc", fetch_pc>> \in panic.args

\* C4: a RET executed while a CALL is open returns to the loop with PC at
\* the address following the innermost open CALL and SP at its value before
\* that CALL; so properly nested CALLs and RETs return in reverse order.
C4_CallRetRoundTrip ==
    [][(Executes("ret") /\ frames # <<>>)
        => /\ halt' = "running"
           /\ pc' = frames[Len(frames)].return_to
           /\ sp' = frames[Len(frames)].sp]_vars

\* C4 witness: CALL 0x202, CALL 0x204, RET, RET (ROM 2202 2204 00EE) has
\* returned from both calls
C4_Witness ==
    /\ halt = "running"
    /\ steps = 4
    /\ current_instruction = 238
    /\ stack[1] = 514 /\ stack[2] = 516
    /\ frames = <<>>
    /\ pc = 514
    /\ sp = 0

\* C5: while the machine runs SP is in [0,16), and a RET on an empty call
\* stack ends in a fatal error.
C5_SpInRange ==
    [][/\ (Executes("ret") /\ sp = 0) => halt' = "panicked"
       /\ halt' = "running" => sp' \in 0..(STACK_SIZE - 1)]_vars

\* C6: a CALL with fewer than 16 open calls completes without error.
C6_SixteenNestedCalls ==
    [][(Executes("call_addr") /\ Len(frames) < STACK_SIZE) => halt' = "running"]_vars

\* C7: 7xkk leaves Vx = (old Vx + kk) mod 256, every other register
\* unchanged and PC advanced by 2.
C7_AddWrapsModulo256 ==
    [][Executes("add_vx_byte")
        => LET command == ReadWord(memory, pc)
               x == OperandX(command)
           IN  /\ vx' = [vx EXCEPT ![x] = (vx[x] + OperandKK(command)) % 256]
               /\ pc' = pc + 2
               /\ halt' = "running"]_vars

\* C8: every register V0..VF and the delay timer hold a value in [0,255].
C8_RegistersAreBytes ==
    /\ \A r \in 0..(NUM_REGISTERS - 1) : vx[r] \in 0..255
    /\ dt \in 0..255

\* C9: every instruction that returns to the loop decrements DT by 1 after
\* its own effect if DT is then positive, and leaves it 0 otherwise.
C9_DelayTimerDecays ==
    [][(ExecutesAny /\ halt' = "running")
        => LET command == ReadWord(memory, pc)
               after_effect == IF Handler(command) = "ld_dt_vx"
                               THEN vx[OperandX(command)]
                               ELSE dt
           IN  dt' = IF after_effect > 0 THEN after_effect - 1 ELSE 0]_vars

\* C10: Dxyn draws memory[I..I+n) with its top-left corner at the values of
\* Vx and Vy, sets VF to 1 on a collision and to 0 otherwise, advances PC by
\* 2 and leaves I and memory unchanged.
C10_DrawAtRegisterValues ==
    [][(Executes("drw_vx_vy_nibble") /\ ReadBytesOk(i, OperandN(ReadWord(memory, pc))))
        => LET command == ReadWord(memory, pc)
               drawn == DrawSprite(pixels, vx[OperandX(command)], vx[OperandY(command)],
                                   ReadBytes(memory, i, OperandN(command)))
           IN  /\ pixels' = drawn.pixels
               /\ vx'[15] = (IF drawn.pixels_erased THEN 1 ELSE 0)
               /\ pc' = pc + 2
               /\ UNCHANGED <<i, memory>>]_vars

\* bit (7 - j) of a sprite row
SpriteBit(row, j) == (row \div (2 ^ (7 - j))) % 2

\* the pixels under the set bits of an 8-pixel-wide sprite placed at (x, y),
\* with toroidal wrap
SpriteCells(x, y, rows) ==
    { CoordinateToIndex((x + c[2]) % DISPLAY_WIDTH, (y + c[1] - 1) % DISPLAY_HEIGHT) :
        c \in { d \in (1..Len(rows)) \X (0..7) : SpriteBit(rows[d[1]], d[2]) = 1 } }

\* C11: a draw_sprite call leaves every pixel ((x + j) mod 64, (y + i) mod 32),
\* i < len(rows), 0 <= j < 8, equal to its old value XOR bit (7 - j) of
\* rows[i], leaves every other pixel as it was, and touches no index outside
\* the 64 x 32 grid.
C11_EightColumnXorBlit ==
    call.op = "draw_sprite"
        => LET cells == SpriteCells(call.x, call.y, call.sprite_data)
           IN  /\ pixels = (call.before \ cells) \cup (cells \ call.before)
               /\ pixels \subseteq 0..(DISPLAY_WIDTH * DISPLAY_HEIGHT - 1)

DrawsAgain ==
    /\ call.op = "draw_sprite"
    /\ call'.n = call.n + 1
    /\ call'.x = call.x /\ call'.y = call.y /\ call'.sprite_data = call.sprite_data

\* C13: drawing the same sprite twice at the same place restores the
\* framebuffer, and when every targeted pixel was off before the first draw
\* and the sprite has a set bit, the second draw reports a collision.
C13_DrawTwiceRestores ==
    [][DrawsAgain
        => /\ pixels' = call.before
           /\ LET cells == SpriteCells(call.x, call.y, call.sprite_data)
              IN  (cells # {} /\ cells \cap call.before = {}) => call'.pixels_erased]_vars

\* C14: a CLS returns to the loop with every pixel off and PC advanced by 2,
\* and leaves the registers, I, SP, the stack and memory as they were.
C14_ClsClearsOnlyTheDisplay ==
    [][Executes("cls")
        => /\ pixels' = {}
           /\ pc' = pc + 2
           /\ halt' = "running"
           /\ UNCHANGED <<vx, i, sp, stack, memory>>]_vars

\* ROM D125 00E0 ...: the CLS has cleared the glyph that the DRW lit
C14_Witness ==
    /\ halt = "running"
    /\ steps = 2
    /\ ReadWord(memory, ROM_START) = 53541
    /\ current_instruction = 224
    /\ pc = ROM_START + 4
    /\ pixels = {}

\* the skip condition of a conditional-skip word: 3xkk Vx = kk, 4xkk Vx # kk,
\* 5xy0 Vx = Vy, 9xy0 Vx # Vy
SkipTaken(w, regs) ==
    CASE Nibble3(w) = 3 -> regs[OperandX(w)] = OperandKK(w)
      [] Nibble3(w) = 4 -> regs[OperandX(w)] # OperandKK(w)
      [] Nibble3(w) = 5 -> regs[OperandX(w)] = regs[OperandY(w)]
      [] OTHER          -> regs[OperandX(w)] # regs[OperandY(w)]

IsSkipWord(w) == Nibble3(w) \in {3, 4} \/ (Nibble3(w) \in {5, 9} /\ OperandN(w) = 0)

\* C15: executing 3xkk, 4xkk, 5xy0 or 9xy0 returns to the loop with PC
\* advanced by 4 when the skip condition holds and by 2 otherwise, and
\* changes no register, no memory and no pixel.
C15_ConditionalSkips ==
    [][(ExecutesAny /\ IsSkipWord(ReadWord(memory, pc)))
        => /\ halt' = "running"
           /\ pc' = pc + (IF SkipTaken(ReadWord(memory, pc), vx) THEN 4 ELSE 2)
           /\ UNCHANGED <<vx, i, memory, pixels>>]_vars

\* C16: after a write_data(a, bytes) that fits in memory, read_bytes(a, len)
\* returns the bytes, read_byte(a + k) is bytes[k] for every k < len, and
\* read_word(a) is bytes[0] * 256 + bytes[1].
C16_WriteReadRoundTrip ==
    (call.op = "write_data" /\ WriteDataOk(call.index, call.data))
        => /\ halt = "running"
           /\ ReadBytesOk(call.index, Len(call.data))
           /\ ReadBytes(memory, call.index, Len(call.data)) = call.data
           /\ \A k \in 0..(Len(call.data) - 1) :
                 ReadByte(memory, call.index + k) = call.data[k + 1]
           /\ Len(call.data) >= 2
                 => ReadWord(memory, call.index) = call.data[1] * 256 + call.data[2]

\* three bytes written over the last three addresses of memory
C16_Witness ==
    /\ halt = "running"
    /\ call.op = "write_data"
    /\ call.index = RAM_SIZE - 3
    /\ call.data = <<18, 52, 86>>
    /\ ReadWord(memory, RAM_SIZE - 3) = 4660
    /\ ReadByte(memory, RAM_SIZE - 1) = 86

\* C17: before the first instruction runs, memory[0x200 + k] is byte k of the
\* ROM file for every k below its length, addresses [0, 80) hold the font
\* table in order, and every other byte of memory is zero.
C17_InitialMemoryImage ==
    steps = 0
        => /\ \A k \in 0..(Len(rom_file) - 1) :
                 ReadByte(memory, ROM_START + k) = rom_file[k + 1]
           /\ \A a \in 0..(Len(FONT) - 1) : ReadByte(memory, a) = FONT[a + 1]
           /\ \A a \in DOMAIN memory :
                 \/ a < Len(FONT)
                 \/ (ROM_START <= a /\ a < ROM_START + Len(rom_file))

\* ROM 1FFF AFFE 00E0 freshly loaded
C17_Witness ==
    /\ steps = 0
    /\ rom_file = <<31, 255, 175, 254, 0, 224>>
    /\ ReadWord(memory, ROM_START) = 8191
    /\ ReadByte(memory, ROM_START + 5) = 224
    /\ ReadByte(memory, 50) = 240

\* C18: in every running state PC is even and lies in [0x200, 4096).
C18_PcEvenInProgramArea ==
    halt = "running" => (pc % 2 = 0 /\ ROM_START <= pc /\ pc < RAM_SIZE)

\* C18, amended: in every running state PC lies in [0, 4096]; an instruction
\* other than JP, CALL and RET moves PC up by exactly 2 (so PC stays even
\* and at or above 0x200 until one of those three runs), and a JP or CALL
\* that returns to the loop leaves PC at its operand nnn, whatever nnn is.
C18_PcFollowsJumps ==
    [][/\ halt' = "running" => (0 <= pc' /\ pc' <= RAM_SIZE)
       /\ (ExecutesAny /\ Handler(ReadWord(memory, pc)) \notin {"jp_addr", "call_addr", "ret"})
             => pc' = pc + 2
       /\ (ExecutesAny /\ Handler(ReadWord(memory, pc)) \in {"jp_addr", "call_addr"}
             /\ halt' = "running")
             => pc' = OperandNNN(ReadWord(memory, pc))]_vars

\* ROM 1FFF: the JP has left the loop running at the odd address 0xFFF
C18_Witness ==
    /\ halt = "running"
    /\ current_instruction = 8191
    /\ pc = 4095

\* C19: a memory access outside [0, 4096) ends the run in a panic and is
\* never wrapped or clamped: a fetch with PC + 2 > 4096 changes nothing; a
\* Dxyn with I + n > 4096 draws nothing; an Fx33 with I + 3 > 4096 leaves
\* every address below I as it was; an Fx65 with I + x >= 4096 loads no
\* register whose address is past the end; and once the run has panicked
\* no further instruction is executed.
C19_OutOfRangeAccessIsFatal ==
    [][/\ (Running /\ ~ReadBytesOk(pc, 2) /\ steps' = steps + 1)
             => /\ halt' = "panicked"
                /\ UNCHANGED <<vx, i, pc, sp, dt, stack, memory, pixels>>
       /\ (Executes("drw_vx_vy_nibble") /\ i + OperandN(ReadWord(memory, pc)) > RAM_SIZE)
             => /\ halt' = "panicked"
                /\ UNCHANGED <<vx, memory, pixels>>
       /\ (Executes("ld_b_vx") /\ i + 3 > RAM_SIZE)
             => /\ halt' = "panicked"
                /\ \A a \in 0..(i - 1) : ReadByte(memory', a) = ReadByte(memory, a)
                /\ UNCHANGED <<vx, pixels>>
       /\ (Executes("ld_vx_i") /\ i + OperandX(ReadWord(memory, pc)) >= RAM_SIZE)
             => /\ halt' = "panicked"
                /\ \A r \in 0..(NUM_REGISTERS - 1) : i + r >= RAM_SIZE => vx'[r] = vx[r]
                /\ UNCHANGED <<memory, pixels>>
       /\ halt = "panicked" => (halt' = "panicked" /\ steps' = steps)]_vars

\* ROM 6012 AFFE F033: the digit for 0xFFF was stored, the one for 0x1000 panicked
C19_Witness ==
    /\ halt = "panicked"
    /\ panic.msg = "index out of bounds"
    /\ current_instruction = 61491
    /\ i = RAM_SIZE - 2
    /\ vx[0] = 18
    /\ ReadByte(memory, RAM_SIZE - 1) = 1
    /\ ReadByte(memory, 0) = FONT[1]

\* C20: an Fx29 returns to the loop with I = 5 * Vx and PC advanced by 2,
\* and leaves the registers, memory and the framebuffer as they were; for
\* Vx in 0..15 the new I is below 80.
C20_GlyphAddress ==
    [][Executes("ld_f_vx")
        => LET digit == vx[OperandX(ReadWord(memory, pc))]
           IN  /\ halt' = "running"
               /\ i' = 5 * digit
               /\ digit \in 0..15 => i' \in 0..(Len(FONT) - 1)
               /\ pc' = pc + 2
               /\ UNCHANGED <<vx, memory, pixels>>]_vars

\* C21: an Fx33 executed with Vx in [0, 255] and I + 3 <= 4096 returns to the
\* loop with decimal digits h, t, o at memory[I], memory[I + 1], memory[I + 2]
\* such that 100 * h + 10 * t + o = Vx, with PC advanced by 2, and changes no
\* register, not I, and no other byte of memory.
C21_BcdDigits ==
    [][(Executes("ld_b_vx") /\ vx[OperandX(ReadWord(memory, pc))] \in 0..255
            /\ i + 3 <= RAM_SIZE)
        => LET h == ReadByte(memory', i)
               t == ReadByte(memory', i + 1)
               o == ReadByte(memory', i + 2)
           IN  /\ halt' = "running"
               /\ {h, t, o} \subseteq 0..9
               /\ 100 * h + 10 * t + o = vx[OperandX(ReadWord(memory, pc))]
               /\ pc' = pc + 2
               /\ UNCHANGED <<vx, i>>
               /\ \A a \in ((DOMAIN memory) \cup (DOMAIN memory')) \ {i, i + 1, i + 2} :
                     ReadByte(memory', a) = ReadByte(memory, a)]_vars

\* ROM 60EA A300 F033: 234 stored as 2, 3, 4 at 0x300
C21_Witness ==
    /\ halt = "running"
    /\ current_instruction = 61491
    /\ vx[0] = 234
    /\ i = 768
    /\ ReadBytes(memory, 768, 3) = <<2, 3, 4>>
    /\ pc = ROM_START + 6

\* C22: every executed instruction other than CLS (00E0) and DRW (Dxyn)
\* leaves all the pixels as they were.
C22_OnlyClsAndDrwTouchPixels ==
    [][(ExecutesAny /\ ReadWord(memory, pc) # 224 /\ Nibble3(ReadWord(memory, pc)) # 13)
        => pixels' = pixels]_vars

\* ROM D125 AFFE ...: the glyph lit by the DRW is still there after the LD I
C22_Witness ==
    /\ steps = 2
    /\ ReadWord(memory, ROM_START) = 53541
    /\ current_instruction = 45054
    /\ i = 4094
    /\ pixels # {}

\* the word is an instruction whose destination operand x is F: 6Fkk, 7Fkk,
\* FF07 or FF65
NamesVF(w) ==
    /\ (w \div 256) % 16 = 15
    /\ \/ Nibble3(w) \in {6, 7}
       \/ (Nibble3(w) = 15 /\ w % 256 \in {7, 101})

\* C23: every executed instruction other than DRW (Dxyn) leaves VF equal to
\* its value before the instruction.
C23_OnlyDrwChangesVF ==
    [][(ExecutesAny /\ Nibble3(ReadWord(memory, pc)) # 13) => vx'[15] = vx[15]]_vars

\* C23, amended: an executed instruction other than DRW leaves VF as it was
\* unless it names VF as its destination (6Fkk, 7Fkk, FF07, FF65); 6Fkk
\* leaves VF = kk; a DRW that returns leaves VF at 0 or 1.
C23_VFChangesOnlyWhenNamed ==
    [][/\ (ExecutesAny /\ Nibble3(ReadWord(memory, pc)) # 13 /\ ~NamesVF(ReadWord(memory, pc)))
             => vx'[15] = vx[15]
       /\ (Executes("ld_vx_byte") /\ NamesVF(ReadWord(memory, pc)))
             => vx'[15] = ReadWord(memory, pc) % 256
       /\ (Executes("drw_vx_vy_nibble") /\ halt' = "running")
             => vx'[15] \in {0, 1}]_vars

\* ROM 6F12: LD VF, 0x12 has stored 0x12 in VF
C23_Witness ==
    /\ halt = "running"
    /\ current_instruction = 28434
    /\ vx[15] = 18

\* C24: an instruction is executed only in a run whose loop check has passed
\* since the last instruction; once the check has failed (the run exited) or
\* an instruction has ended in a panic, no instruction is executed and the
\* registers, I, PC, SP, DT, the stack, memory and the pixels never change.
C24_NothingRunsAfterTheEnd ==
    [][/\ steps' # steps => halt = "running"
       /\ halt # "running"
             => UNCHANGED <<vx, i, pc, sp, dt, stack, memory, pixels, halt, panic, steps>>]_vars

\* ROM D125 6012 ...: the window was closed after two instructions
C24_Witness ==
    /\ halt = "exited"
    /\ steps = 2
    /\ current_instruction = 24594
    /\ vx[0] = 18
    /\ pixels # {}

\* C25: a CALL executed with SP = s stores the address after the CALL in
\* stack[s] and nowhere else, and leaves SP = s + 1 and PC = nnn; a RET
\* executed with SP = s > 0 leaves SP = s - 1 and PC = stack[s - 1] and
\* modifies no stack slot.
C25_StackSlotDiscipline ==
    [][/\ Executes("call_addr")
             => /\ stack' = [stack EXCEPT ![sp] = pc + 2]
                /\ sp' = sp + 1
                /\ pc' = OperandNNN(ReadWord(memory, pc))
       /\ (Executes("ret") /\ sp > 0)
             => /\ stack' = stack
                /\ sp' = sp - 1
                /\ pc' = stack[sp']]_vars

\* C26: in every state of every run the address register I is a memory
\* address, 0 <= I < 4096.
C26_IIsAnAddress == 0 <= i /\ i < RAM_SIZE
====
